---- MODULE Spec2Model ----
(***************************************************************************)
(* Model of tlaloc_commons/commons.py: the _cloudformation helper          *)
(* (deploy, deploy_wait, get_output, check_stack) run against a remote     *)
(* provisioning API whose answers are nondeterministic.                    *)
(***************************************************************************)
EXTENDS Integers, Sequences, FiniteSets, TLC

VARIABLES
    pc,               \* position of the running call
    op,               \* the method called from outside: deploy, deploy_wait, get_output
    keys,             \* template keys present in config["config"]
    aws_stack_status, \* deploy: status read at the start of the call
    recheck,          \* deploy: status read again after delete_stack and deploy_wait
    status,           \* deploy_wait / get_output: local variable status
    report,           \* deploy_wait: message printed about the procedure
    timeout,          \* deploy_wait: timeout argument
    elapsed,          \* deploy_wait: time.time() - start_time
    sleeps,           \* deploy_wait: number of time.sleep(10) calls
    stayed,           \* deploy_wait: every status observed so far was in progress
    wcaller,          \* deploy_wait: who called it (outside, or deploy)
    client,           \* self._cloudformation_client: handle it refers to (0: unset)
    handles,          \* state of every client handle
    closes,           \* number of close() calls per handle
    usedClosed,       \* a remote call went through a closed handle
    session,          \* attribute self._aws_session exists
    session_wait,     \* attribute self._aws_session_wait exists
    calls,            \* mutating remote calls, waits and nested calls so far, in order
    error,            \* exception raised out of the call ("none": no exception)
    diff,             \* remote: what the change set would change
    csStatus,         \* remote: Status of the change set
    csReason,         \* remote: StatusReason of the change set
    csSeen,           \* deploy: Status returned by describe_change_set
    output_name,      \* get_output: argument
    outputs,          \* get_output: Outputs of the describe_stacks response
    value,            \* get_output: local variable value
    describes,        \* number of describe_stacks calls issued
    lastRead,         \* answer to the last check_stack; "" once a mutating call followed it
    \* Two calls interleaved on the shared instance _aws.cloudformation:
    tpc,              \* per call: idle, run, nested (in the deploy_wait of deploy), after, done
    top,              \* per call: the method called
    tcalls,           \* per call: remote calls issued since its last open or close of a client
    attr,             \* the shared attribute self._cloudformation_client (0: unset)
    hstate,           \* state of every client handle
    owner,            \* the call that opened each handle (0: nobody yet)
    foreignUse,       \* per call: it issued a remote call through a client of the other call
    foreignClose,     \* per call: it closed a client of the other call
    overlap           \* a call began while the other one was running

\* State of the single call
callVars == <<pc, op, keys, aws_stack_status, recheck, status, report, timeout,
              elapsed, sleeps, stayed, wcaller, client, handles, closes, usedClosed,
              session, session_wait, calls, error, diff, csStatus, csReason, csSeen,
              output_name, outputs, value, describes, lastRead>>

\* State of the two interleaved calls
sharedVars == <<tpc, top, tcalls, attr, hstate, owner, foreignUse, foreignClose,
                overlap>>

vars == <<callVars, sharedVars>>

----------------------------------------------------------------------------
(* Status tables of _cloudformation *)

in_progress_statuses ==
    { "CREATE_IN_PROGRESS", "ROLLBACK_IN_PROGRESS", "DELETE_IN_PROGRESS",
      "UPDATE_IN_PROGRESS", "UPDATE_ROLLBACK_IN_PROGRESS", "REVIEW_IN_PROGRESS",
      "IMPORT_IN_PROGRESS", "IMPORT_ROLLBACK_IN_PROGRESS",
      "UPDATE_COMPLETE_CLEANUP_IN_PROGRESS" }

completed_statuses ==
    { "CREATE_COMPLETE", "DELETE_COMPLETE", "UPDATE_COMPLETE",
      "UPDATE_ROLLBACK_COMPLETE", "IMPORT_COMPLETE", "ROLLBACK_COMPLETE",
      "IMPORT_ROLLBACK_COMPLETE" }

failed_statuses ==
    { "CREATE_FAILED", "ROLLBACK_FAILED", "DELETE_FAILED", "UPDATE_FAILED",
      "UPDATE_ROLLBACK_FAILED", "IMPORT_FAILED", "IMPORT_ROLLBACK_FAILED" }

rollback_statuses ==
    { "ROLLBACK_COMPLETE", "UPDATE_ROLLBACK_COMPLETE", "IMPORT_ROLLBACK_COMPLETE" }

special_cases ==
    { "DELETE_IN_PROGRESS", "DELETE_COMPLETE", "DELETE_FAILED" }

update_impossible_statuses ==
    { "ROLLBACK_COMPLETE", "ROLLBACK_FAILED", "DELETE_FAILED",
      "UPDATE_ROLLBACK_FAILED", "IMPORT_ROLLBACK_FAILED" }

\* A status of the provisioning API that none of the tables lists.
untabled_statuses == { "UPDATE_ROLLBACK_COMPLETE_CLEANUP_IN_PROGRESS" }

\* Every StackStatus describe_stacks can answer.
StackStatuses ==
    in_progress_statuses \cup completed_statuses \cup failed_statuses
        \cup rollback_statuses \cup special_cases \cup update_impossible_statuses
        \cup untabled_statuses

DOES_NOT_EXIST == "DOES_NOT_EXIST"

\* What check_stack can return.
Observations == StackStatuses \cup {DOES_NOT_EXIST}

----------------------------------------------------------------------------
(* Bounds and program constants *)

NumHandles == 2        \* client handles a single call can open
MaxOverhead == 1       \* time units the describe calls of one deploy_wait add to its sleeps
MaxOutputs == 2        \* length of the Outputs list of a stack
MaxRemoteCalls == 3    \* remote calls an interleaved call issues between opens and closes

PollInterval == 10     \* time.sleep(10)
DefaultTimeout == 600  \* deploy_wait(self, user, timeout=600)

Timeouts == {0, 25, 30, DefaultTimeout}

\* Remote failures: a ClientError whose text holds "No updates are to be
\* performed", and any other remote error.
RemoteErrors == {"NoUpdates", "RemoteError"}

TemplateKeys == {"aws_template_file", "aws_template_body"}

OutputKeys == {"Url", "Arn"}
OutputValues == {"https://x", "arn:y"}
OutputNames == {"Url", "Missing"}

NoChangesReason == "The submitted information didn't contain changes. Submit different information to create a change set."
NoUpdatesReason == "No updates are to be performed."
OtherReason == "Template error"

----------------------------------------------------------------------------
(* Helpers *)

Handles == 1..NumHandles

\* The two calls that run interleaved, and the handles they can open.
Threads == {1, 2}
SharedHandles == 1..(NumHandles * Cardinality(Threads))

\* An entry of the call log.
Call(name, src, ok) == [call |-> name, src |-> src, ok |-> ok]

\* Errors of describe_stacks other than "does not exist": none of them
\* mentions "No updates are to be performed", an answer to updates only.
DescribeErrors == {"RemoteError"}

\* What a describe_stacks request can answer: a stack with a status, the
\* "does not exist" ClientError, or another remote error.
DescribeAnswers == StackStatuses \cup {"StackNotFound"} \cup DescribeErrors

\* What any other remote request can answer.
RemoteAnswers == {"ok"} \cup RemoteErrors

\* check_stack with a bare except: every error becomes the sentinel.
check_stackAnyError(answer) ==
    IF answer \in StackStatuses THEN [ret |-> answer, exc |-> "none"]
    ELSE [ret |-> DOES_NOT_EXIST, exc |-> "none"]

\* check_stack: the status, the sentinel for the "does not exist" error, any
\* other error raised again.
check_stack(answer) ==
    IF answer \in StackStatuses THEN [ret |-> answer, exc |-> "none"]
    ELSE IF answer = "StackNotFound" THEN [ret |-> DOES_NOT_EXIST, exc |-> "none"]
    ELSE [ret |-> "", exc |-> answer]

\* DeployBranch without the final else: a request without a template takes no
\* branch.
DeployBranchNoElse(k, s) ==
    IF "aws_template_file" \in k THEN
        IF s = DOES_NOT_EXIST THEN "create"
        ELSE IF s \in in_progress_statuses THEN "in_progress"
        ELSE IF s \in failed_statuses \/ s \in update_impossible_statuses
            THEN "recreate"
        ELSE IF s \in completed_statuses THEN "update"
        ELSE "none"
    ELSE IF "aws_template_body" \in k THEN
        IF s = DOES_NOT_EXIST THEN "create"
        ELSE IF s \in in_progress_statuses THEN "in_progress"
        ELSE IF s \in failed_statuses THEN "recreate"
        ELSE IF s \in completed_statuses THEN "update"
        ELSE "none"
    ELSE "none"

\* DeployBranch without the in-progress test of the template body chain.
DeployBranchNoBusyTest(k, s) ==
    IF "aws_template_file" \in k THEN
        IF s = DOES_NOT_EXIST THEN "create"
        ELSE IF s \in in_progress_statuses THEN "in_progress"
        ELSE IF s \in failed_statuses \/ s \in update_impossible_statuses
            THEN "recreate"
        ELSE IF s \in completed_statuses THEN "update"
        ELSE "none"
    ELSE IF "aws_template_body" \in k THEN
        IF s = DOES_NOT_EXIST THEN "create"
        ELSE IF s \in failed_statuses THEN "recreate"
        ELSE IF s \in completed_statuses THEN "update"
        ELSE "none"
    ELSE "no_template"

\* The if/elif chain of deploy: the branch taken for the template keys k of
\* the request and the observed status s.
DeployBranch(k, s) ==
    IF "aws_template_file" \in k THEN
        IF s = DOES_NOT_EXIST THEN "create"
        ELSE IF s \in in_progress_statuses THEN "in_progress"
        ELSE IF s \in failed_statuses \/ s \in update_impossible_statuses
            THEN "recreate"
        ELSE IF s \in completed_statuses THEN "update"
        ELSE "none"
    ELSE IF "aws_template_body" \in k THEN
        IF s = DOES_NOT_EXIST THEN "create"
        ELSE IF s \in in_progress_statuses THEN "in_progress"
        ELSE IF s \in failed_statuses THEN "recreate"
        ELSE IF s \in completed_statuses THEN "update"
        ELSE "none"
    ELSE "no_template"

\* Arguments of create_stack: both branches build TemplateURL from
\* config["config"]["aws_template_file"], a KeyError when the key is absent.
CreateStackArgs(k) ==
    IF "aws_template_file" \in k
        THEN [exc |-> "none", src |-> "aws_template_file"]
        ELSE [exc |-> "KeyError", src |-> ""]

\* Arguments of create_change_set: TemplateURL from the file, or TemplateBody.
ChangeSetArgs(k) ==
    IF "aws_template_file" \in k THEN "aws_template_file" ELSE "aws_template_body"

\* except Exception as e: "No updates are to be performed" in str(e)
MentionsNoUpdates(e) ==
    e \in {"NoUpdates", "Failed to create change set: No updates are to be performed."}

\* Status a change set ends in, by what the submitted template changes.
FinalChangeSetStatus(d) == IF d = "changes" THEN "CREATE_COMPLETE" ELSE "FAILED"

\* StatusReason values the API gives by what the submitted template changes.
ChangeSetReasons(d) ==
    IF d = "changes" THEN {""}
    ELSE IF d = "empty" THEN {NoChangesReason, NoUpdatesReason}
    ELSE {OtherReason}

\* The handle a new client gets.
NewHandle == CHOOSE h \in Handles :
    handles[h] = "unopened" /\ \A g \in Handles : handles[g] = "unopened" => h <= g

\* A remote call goes through the handle self._cloudformation_client refers to.
Through == usedClosed' = (usedClosed \/ handles[client] = "closed")

\* An exception leaves the call: nothing after the raise runs.
Raise(e) == pc' = "done" /\ error' = e

\* self._cloudformation_client.close()
CloseClient ==
    /\ handles' = [handles EXCEPT ![client] = "closed"]
    /\ closes' = [closes EXCEPT ![client] = @ + 1]

----------------------------------------------------------------------------
Init ==
    /\ pc = "idle"
    /\ op = "none"
    /\ keys = {}
    /\ aws_stack_status = ""
    /\ recheck = ""
    /\ status = ""
    /\ report = ""
    /\ timeout = 0
    /\ elapsed = 0
    /\ sleeps = 0
    /\ stayed = TRUE
    /\ wcaller = "none"
    /\ client = 0
    /\ handles = [h \in Handles |-> "unopened"]
    /\ closes = [h \in Handles |-> 0]
    /\ usedClosed = FALSE
    /\ session = FALSE
    /\ session_wait = FALSE
    /\ calls = <<>>
    /\ error = "none"
    /\ diff = "none"
    /\ csStatus = "none"
    /\ csReason = ""
    /\ csSeen = "none"
    /\ output_name = ""
    /\ outputs = [present |-> FALSE, list |-> <<>>]
    /\ value = "None"
    /\ describes = 0
    /\ lastRead = ""
    /\ tpc = [t \in Threads |-> "idle"]
    /\ top = [t \in Threads |-> "none"]
    /\ tcalls = [t \in Threads |-> 0]
    /\ attr = 0
    /\ hstate = [h \in SharedHandles |-> "unopened"]
    /\ owner = [h \in SharedHandles |-> 0]
    /\ foreignUse = [t \in Threads |-> FALSE]
    /\ foreignClose = [t \in Threads |-> FALSE]
    /\ overlap = FALSE

waitVars == <<status, report, timeout, elapsed, sleeps, stayed, wcaller, session_wait>>
csVars == <<diff, csStatus, csReason, csSeen>>
outVars == <<output_name, outputs, value>>
clientVars == <<client, handles, closes>>

----------------------------------------------------------------------------
(* deploy *)

\* Session and client are created.
DeployBegin ==
    /\ pc = "idle"
    /\ \E k \in SUBSET TemplateKeys : keys' = k
    /\ op' = "deploy"
    /\ session' = TRUE
    /\ client' = NewHandle
    /\ handles' = [handles EXCEPT ![NewHandle] = "open"]
    /\ pc' = "d_check"
    /\ UNCHANGED <<aws_stack_status, recheck, waitVars, closes, usedClosed, calls,
                   error, csVars, outVars, describes, lastRead>>
    /\ UNCHANGED sharedVars

\* aws_stack_status = self.check_stack(...)
DeployCheckStack ==
    /\ pc = "d_check"
    /\ lastRead' \in DescribeAnswers
    /\ LET a == lastRead' IN
        LET r == check_stack(a) IN
        IF r.exc = "none"
            THEN aws_stack_status' = r.ret /\ pc' = "d_branch" /\ error' = error
            ELSE Raise(r.exc) /\ aws_stack_status' = aws_stack_status
    /\ Through
    /\ describes' = describes + 1
    /\ UNCHANGED <<op, keys, recheck, waitVars, clientVars, session, calls, csVars,
                   outVars>>
    /\ UNCHANGED sharedVars

\* else: raise ValueError("No template provided")
DeployNoTemplate ==
    /\ pc = "d_branch"
    /\ DeployBranch(keys, aws_stack_status) = "no_template"
    /\ Raise("No template provided")
    /\ UNCHANGED <<op, keys, aws_stack_status, recheck, waitVars, clientVars,
                   usedClosed, session, calls, csVars, outVars, describes, lastRead>>
    /\ UNCHANGED sharedVars

\* elif aws_stack_status in self.in_progress_statuses: raise
DeployInProgress ==
    /\ pc = "d_branch"
    /\ DeployBranch(keys, aws_stack_status) = "in_progress"
    /\ Raise("Stack is in progress")
    /\ UNCHANGED <<op, keys, aws_stack_status, recheck, waitVars, clientVars,
                   usedClosed, session, calls, csVars, outVars, describes, lastRead>>
    /\ UNCHANGED sharedVars

\* No branch of the chain matches: control reaches the close.
DeployNoBranch ==
    /\ pc = "d_branch"
    /\ DeployBranch(keys, aws_stack_status) = "none"
    /\ pc' = "d_close"
    /\ UNCHANGED <<op, keys, aws_stack_status, recheck, waitVars, clientVars,
                   usedClosed, session, calls, error, csVars, outVars, describes, lastRead>>
    /\ UNCHANGED sharedVars

\* CreateStack that sends the request again when the first one fails.
CreateStackRetrying ==
    LET args == CreateStackArgs(keys) IN
    IF args.exc # "none"
        THEN Raise(args.exc) /\ UNCHANGED <<calls, usedClosed, lastRead>>
        ELSE /\ Through
             /\ lastRead' = ""
             /\ \E a, b \in RemoteAnswers :
                 IF a = "ok"
                    THEN /\ calls' = Append(calls, Call("create_stack", args.src, TRUE))
                         /\ pc' = "d_close" /\ error' = error
                    ELSE /\ calls' = calls \o <<Call("create_stack", args.src, FALSE),
                                                 Call("create_stack", args.src, b = "ok")>>
                         /\ IF b = "ok" THEN pc' = "d_close" /\ error' = error
                                        ELSE Raise(b)

\* create_stack(...): the arguments are evaluated, then the request is sent.
CreateStack ==
    LET args == CreateStackArgs(keys) IN
    IF args.exc # "none"
        THEN Raise(args.exc) /\ UNCHANGED <<calls, usedClosed, lastRead>>
        ELSE /\ Through
             /\ lastRead' = ""
             /\ \E a \in RemoteAnswers :
                 /\ calls' = Append(calls, Call("create_stack", args.src, a = "ok"))
                 /\ IF a = "ok" THEN pc' = "d_close" /\ error' = error
                                ELSE Raise(a)

\* if aws_stack_status == "DOES_NOT_EXIST": create_stack
DeployCreate ==
    /\ pc = "d_branch"
    /\ DeployBranch(keys, aws_stack_status) = "create"
    /\ CreateStack
    /\ UNCHANGED <<op, keys, aws_stack_status, recheck, waitVars, clientVars,
                   session, csVars, outVars, describes>>
    /\ UNCHANGED sharedVars

\* Failed stack: delete_stack, then the call of deploy_wait(config).
DeployDelete ==
    /\ pc = "d_branch"
    /\ DeployBranch(keys, aws_stack_status) = "recreate"
    /\ Through
    /\ lastRead' = ""
    /\ \E a \in RemoteAnswers :
        /\ calls' = Append(calls, Call("delete_stack", "", a = "ok"))
        /\ IF a = "ok"
            THEN /\ pc' = "w_begin"
                 /\ wcaller' = "deploy"
                 /\ timeout' = DefaultTimeout
                 /\ error' = error
            ELSE Raise(a) /\ UNCHANGED <<wcaller, timeout>>
    /\ UNCHANGED <<op, keys, aws_stack_status, recheck, status, report, elapsed,
                   sleeps, stayed, session_wait, clientVars, session, csVars,
                   outVars, describes>>
    /\ UNCHANGED sharedVars

\* DeployRecheck without the raise: the create follows whatever was read.
DeployRecheckLenient ==
    /\ pc = "d_recheck"
    /\ lastRead' \in DescribeAnswers
    /\ LET r == check_stack(lastRead') IN
        IF r.exc # "none" THEN Raise(r.exc) /\ recheck' = recheck
        ELSE recheck' = r.ret /\ pc' = "d_recreate" /\ error' = error
    /\ Through
    /\ describes' = describes + 1
    /\ UNCHANGED <<op, keys, aws_stack_status, waitVars, clientVars, session, calls,
                   csVars, outVars>>
    /\ UNCHANGED sharedVars

\* if self.check_stack(...) != "DOES_NOT_EXIST": raise
DeployRecheck ==
    /\ pc = "d_recheck"
    /\ lastRead' \in DescribeAnswers
    /\ LET a == lastRead' IN
        LET r == check_stack(a) IN
        IF r.exc # "none" THEN Raise(r.exc) /\ recheck' = recheck
        ELSE /\ recheck' = r.ret
             /\ IF r.ret # DOES_NOT_EXIST
                   THEN Raise("Failed to delete stack, cannot continue")
                   ELSE pc' = "d_recreate" /\ error' = error
    /\ Through
    /\ describes' = describes + 1
    /\ UNCHANGED <<op, keys, aws_stack_status, waitVars, clientVars, session, calls,
                   csVars, outVars>>
    /\ UNCHANGED sharedVars

\* create_stack after the delete
DeployRecreate ==
    /\ pc = "d_recreate"
    /\ CreateStack
    /\ UNCHANGED <<op, keys, aws_stack_status, recheck, waitVars, clientVars,
                   session, csVars, outVars, describes>>
    /\ UNCHANGED sharedVars

\* self._cloudformation_client.close(); del self._aws_session
DeployClose ==
    /\ pc = "d_close"
    /\ CloseClient
    /\ session' = FALSE
    /\ pc' = "done"
    /\ UNCHANGED <<op, keys, aws_stack_status, recheck, waitVars, client, usedClosed,
                   calls, error, csVars, outVars, describes, lastRead>>
    /\ UNCHANGED sharedVars

\* The except clause of the update path: an exception that mentions "No
\* updates are to be performed" is dropped, any other is raised again.
Except(e) ==
    IF MentionsNoUpdates(e) THEN pc' = "d_close" /\ error' = error ELSE Raise(e)

\* str(e) of the ValueError raised for a FAILED change set
ChangeSetFailure(reason) ==
    IF reason = NoUpdatesReason
        THEN "Failed to create change set: No updates are to be performed."
        ELSE "Failed to create change set"

\* elif aws_stack_status in self.completed_statuses: create_change_set
DeployCreateChangeSet ==
    /\ pc = "d_branch"
    /\ DeployBranch(keys, aws_stack_status) = "update"
    /\ Through
    /\ lastRead' = ""
    /\ \E a \in RemoteAnswers :
        /\ calls' = Append(calls, Call("create_change_set", ChangeSetArgs(keys), a = "ok"))
        /\ IF a = "ok"
            THEN /\ \E d \in {"empty", "changes", "invalid"} :
                     /\ diff' = d
                     /\ csReason' \in ChangeSetReasons(d)
                     /\ csStatus' \in {"CREATE_PENDING", FinalChangeSetStatus(d)}
                 /\ pc' = IF "aws_template_file" \in keys THEN "d_cs_describe"
                                                         ELSE "d_cs_wait"
                 /\ error' = error
            ELSE Except(a) /\ UNCHANGED <<diff, csReason, csStatus>>
    /\ UNCHANGED <<op, keys, aws_stack_status, recheck, waitVars, clientVars,
                   session, csSeen, outVars, describes>>
    /\ UNCHANGED sharedVars

\* describe_change_set and the test of its Status (template file only)
DeployDescribeChangeSet ==
    /\ pc = "d_cs_describe"
    /\ Through
    /\ \E a \in RemoteAnswers :
        IF a # "ok" THEN Except(a) /\ csSeen' = csSeen
        ELSE /\ csSeen' = csStatus
             /\ IF csStatus = "FAILED"
                   THEN IF csReason = NoChangesReason
                           THEN pc' = "d_cs_delete" /\ error' = error
                           ELSE Except(ChangeSetFailure(csReason))
                   ELSE pc' = "d_cs_wait" /\ error' = error
    /\ UNCHANGED <<op, keys, aws_stack_status, recheck, waitVars, clientVars,
                   session, calls, diff, csStatus, csReason, outVars, describes, lastRead>>
    /\ UNCHANGED sharedVars

\* delete_change_set, then return
DeployDeleteChangeSet ==
    /\ pc = "d_cs_delete"
    /\ Through
    /\ lastRead' = ""
    /\ \E a \in RemoteAnswers :
        /\ calls' = Append(calls, Call("delete_change_set", "", a = "ok"))
        /\ IF a = "ok" THEN pc' = "done" /\ error' = error
                       ELSE Except(a)
    /\ UNCHANGED <<op, keys, aws_stack_status, recheck, waitVars, clientVars,
                   session, csVars, outVars, describes>>
    /\ UNCHANGED sharedVars

\* DeployWaitChangeSet that goes on to execute_change_set whatever the waiter
\* ended with.
DeployWaitChangeSetLenient ==
    /\ pc = "d_cs_wait"
    /\ Through
    /\ \/ /\ csStatus' = FinalChangeSetStatus(diff)
          /\ calls' = Append(calls, Call("wait_change_set_create_complete", "",
                                         csStatus' = "CREATE_COMPLETE"))
       \/ /\ csStatus = "CREATE_PENDING"
          /\ csStatus' = csStatus
          /\ calls' = Append(calls, Call("wait_change_set_create_complete", "", FALSE))
    /\ pc' = "d_execute"
    /\ UNCHANGED <<op, keys, aws_stack_status, recheck, waitVars, clientVars,
                   session, error, diff, csReason, csSeen, outVars, describes,
                   lastRead>>
    /\ UNCHANGED sharedVars

\* waiter change_set_create_complete: succeeds on CREATE_COMPLETE, fails with a
\* WaiterError on FAILED or when the attempts run out on a pending change set.
DeployWaitChangeSet ==
    /\ pc = "d_cs_wait"
    /\ Through
    /\ \/ /\ csStatus' = FinalChangeSetStatus(diff)
          /\ calls' = Append(calls, Call("wait_change_set_create_complete", "",
                                         csStatus' = "CREATE_COMPLETE"))
          /\ IF csStatus' = "CREATE_COMPLETE"
                THEN pc' = "d_execute" /\ error' = error
                ELSE Except("WaiterError")
       \/ /\ csStatus = "CREATE_PENDING"
          /\ csStatus' = csStatus
          /\ calls' = Append(calls, Call("wait_change_set_create_complete", "", FALSE))
          /\ Except("WaiterError")
    /\ UNCHANGED <<op, keys, aws_stack_status, recheck, waitVars, clientVars,
                   session, diff, csReason, csSeen, outVars, describes, lastRead>>
    /\ UNCHANGED sharedVars

\* execute_change_set
DeployExecute ==
    /\ pc = "d_execute"
    /\ Through
    /\ lastRead' = ""
    /\ \E a \in RemoteAnswers :
        /\ calls' = Append(calls, Call("execute_change_set", "", a = "ok"))
        /\ IF a = "ok" THEN pc' = "d_upd_wait" /\ error' = error
                       ELSE Except(a)
    /\ UNCHANGED <<op, keys, aws_stack_status, recheck, waitVars, clientVars,
                   session, csVars, outVars, describes>>
    /\ UNCHANGED sharedVars

\* waiter stack_update_complete
DeployWaitUpdate ==
    /\ pc = "d_upd_wait"
    /\ Through
    /\ \E ok \in BOOLEAN :
        /\ calls' = Append(calls, Call("wait_stack_update_complete", "", ok))
        /\ IF ok THEN pc' = "d_final" /\ error' = error
                 ELSE Except("WaiterError")
    /\ UNCHANGED <<op, keys, aws_stack_status, recheck, waitVars, clientVars,
                   session, csVars, outVars, describes, lastRead>>
    /\ UNCHANGED sharedVars

\* stack_status = self.check_stack(...) at the end of the update path
DeployFinalCheck ==
    /\ pc = "d_final"
    /\ Through
    /\ describes' = describes + 1
    /\ lastRead' \in DescribeAnswers
    /\ LET a == lastRead' IN
        LET r == check_stack(a) IN
        IF r.exc = "none" THEN pc' = "d_close" /\ error' = error
                          ELSE Except(r.exc)
    /\ UNCHANGED <<op, keys, aws_stack_status, recheck, waitVars, clientVars,
                   session, calls, csVars, outVars>>
    /\ UNCHANGED sharedVars

----------------------------------------------------------------------------
(* deploy_wait *)

\* The message deploy_wait prints about the last status it read.
WaitReportOf(s) ==
    IF s \in completed_statuses \/ s = DOES_NOT_EXIST THEN "Stack procedure successful"
    ELSE IF s \in failed_statuses THEN "Stack procedure failed"
    ELSE "Stack procedure timed out"

\* The loop condition without the test of the elapsed time.
WaitContinuesNoTimeout(s, e, t) == s \in in_progress_statuses

\* The loop condition with <= for <.
WaitContinuesInclusive(s, e, t) == s \in in_progress_statuses /\ e <= t

\* Condition of the poll loop
WaitContinues(s, e, t) == s \in in_progress_statuses /\ e < t

\* deploy_wait called from outside
DeployWaitCall ==
    /\ pc = "idle"
    /\ op' = "deploy_wait"
    /\ wcaller' = "outside"
    /\ timeout' \in Timeouts
    /\ pc' = "w_begin"
    /\ UNCHANGED <<keys, aws_stack_status, recheck, status, report, elapsed, sleeps,
                   stayed, session_wait, clientVars, usedClosed, session, calls,
                   error, csVars, outVars, describes, lastRead>>
    /\ UNCHANGED sharedVars

\* Session and client of deploy_wait are created; the client is stored in the
\* attribute deploy uses too.
WaitBegin ==
    /\ pc = "w_begin"
    /\ session_wait' = TRUE
    /\ client' = NewHandle
    /\ handles' = [handles EXCEPT ![NewHandle] = "open"]
    /\ pc' = "w_first"
    /\ UNCHANGED <<op, keys, aws_stack_status, recheck, status, report, timeout,
                   elapsed, sleeps, stayed, wcaller, closes, usedClosed, session,
                   calls, error, csVars, outVars, describes, lastRead>>
    /\ UNCHANGED sharedVars

\* First check_stack; start_time = time.time()
WaitFirstCheck ==
    /\ pc = "w_first"
    /\ Through
    /\ describes' = describes + 1
    /\ lastRead' \in DescribeAnswers
    /\ LET a == lastRead' IN
        LET r == check_stack(a) IN
        IF r.exc # "none"
            THEN Raise(r.exc) /\ UNCHANGED <<status, report, stayed>>
        ELSE /\ status' = r.ret
             /\ error' = error
             /\ stayed' = (r.ret \in in_progress_statuses)
             /\ IF r.ret = DOES_NOT_EXIST
                   THEN report' = "The stack does not exist" /\ pc' = "w_close"
                   ELSE report' = report /\ pc' = "w_loop"
    /\ elapsed' = 0
    /\ UNCHANGED <<op, keys, aws_stack_status, recheck, timeout, sleeps, wcaller,
                   session_wait, clientVars, session, calls, csVars, outVars>>
    /\ UNCHANGED sharedVars

\* One turn of the loop: time.sleep(10), then check_stack
WaitPoll ==
    /\ pc = "w_loop"
    /\ WaitContinues(status, elapsed, timeout)
    /\ sleeps' = sleeps + 1
    /\ \E lat \in 0..MaxOverhead :
        /\ (elapsed - PollInterval * sleeps) + lat <= MaxOverhead
        /\ elapsed' = elapsed + PollInterval + lat
    /\ Through
    /\ describes' = describes + 1
    /\ lastRead' \in DescribeAnswers
    /\ LET a == lastRead' IN
        LET r == check_stack(a) IN
        IF r.exc # "none"
            THEN Raise(r.exc) /\ UNCHANGED <<status, stayed>>
        ELSE /\ status' = r.ret
             /\ stayed' = (stayed /\ r.ret \in in_progress_statuses)
             /\ UNCHANGED <<pc, error>>
    /\ UNCHANGED <<op, keys, aws_stack_status, recheck, report, timeout, wcaller,
                   session_wait, clientVars, session, calls, csVars, outVars>>
    /\ UNCHANGED sharedVars

\* The loop is left; the status is reported.
WaitReport ==
    /\ pc = "w_loop"
    /\ ~WaitContinues(status, elapsed, timeout)
    /\ report' = WaitReportOf(status)
    /\ pc' = "w_close"
    /\ UNCHANGED <<op, keys, aws_stack_status, recheck, status, timeout, elapsed,
                   sleeps, stayed, wcaller, session_wait, clientVars, usedClosed,
                   session, calls, error, csVars, outVars, describes, lastRead>>
    /\ UNCHANGED sharedVars

\* self._cloudformation_client.close(); del self._aws_session_wait; return.
\* The locals of deploy_wait end with the call when deploy goes on.
WaitClose ==
    /\ pc = "w_close"
    /\ CloseClient
    /\ session_wait' = FALSE
    /\ IF wcaller = "deploy"
          THEN /\ pc' = "d_recheck"
               /\ calls' = Append(calls, Call("deploy_wait", "", TRUE))
               /\ status' = ""
               /\ report' = ""
               /\ timeout' = 0
               /\ elapsed' = 0
               /\ sleeps' = 0
               /\ stayed' = TRUE
               /\ wcaller' = "none"
          ELSE /\ pc' = "done"
               /\ UNCHANGED <<calls, status, report, timeout, elapsed, sleeps, stayed,
                              wcaller>>
    /\ UNCHANGED <<op, keys, aws_stack_status, recheck, client, usedClosed, session,
                   error, csVars, outVars, describes, lastRead>>
    /\ UNCHANGED sharedVars

----------------------------------------------------------------------------
(* get_output *)

Output(k, v) == [OutputKey |-> k, OutputValue |-> v]

\* Outputs lists of a stack: output keys are unique within a stack.
OutputLists ==
    { l \in UNION { [1..n -> {Output(k, v) : k \in OutputKeys, v \in OutputValues}] :
                        n \in 0..MaxOutputs } :
        \A i, j \in DOMAIN l : l[i].OutputKey = l[j].OutputKey => i = j }

\* response.get("Stacks")[0].get("Outputs"): None when the response has no
\* Outputs member, else the list.
OutputsAnswers ==
    {[present |-> FALSE, list |-> <<>>]} \cup
    {[present |-> TRUE, list |-> l] : l \in OutputLists}

\* The for loop over outputs: the value of the first output with the key.
RECURSIVE FindOutput(_, _)
FindOutput(list, name) ==
    IF list = <<>> THEN "None"
    ELSE IF Head(list).OutputKey = name THEN Head(list).OutputValue
    ELSE FindOutput(Tail(list), name)

\* The test get_output makes of the status, before the lookup and after the close
InvalidState(s) ==
    s = DOES_NOT_EXIST \/ s \notin completed_statuses \/ s \in failed_statuses

\* Session and client are created.
GetOutputBegin ==
    /\ pc = "idle"
    /\ op' = "get_output"
    /\ output_name' \in OutputNames
    /\ session' = TRUE
    /\ client' = NewHandle
    /\ handles' = [handles EXCEPT ![NewHandle] = "open"]
    /\ pc' = "g_check"
    /\ UNCHANGED <<keys, aws_stack_status, recheck, waitVars, closes, usedClosed,
                   calls, error, csVars, outputs, value, describes, lastRead>>
    /\ UNCHANGED sharedVars

\* status = self.check_stack(...); break when the status is not valid
GetOutputCheck ==
    /\ pc = "g_check"
    /\ Through
    /\ describes' = describes + 1
    /\ lastRead' \in DescribeAnswers
    /\ LET a == lastRead' IN
        LET r == check_stack(a) IN
        IF r.exc # "none" THEN Raise(r.exc) /\ status' = status
        ELSE /\ status' = r.ret
             /\ error' = error
             /\ pc' = IF InvalidState(r.ret) THEN "g_close" ELSE "g_describe"
    /\ UNCHANGED <<op, keys, aws_stack_status, recheck, report, timeout, elapsed,
                   sleeps, stayed, wcaller, session_wait, clientVars, session, calls,
                   csVars, outVars>>
    /\ UNCHANGED sharedVars

\* describe_stacks for the outputs, and the search for output_name
GetOutputDescribe ==
    /\ pc = "g_describe"
    /\ Through
    /\ describes' = describes + 1
    /\ \E a \in DescribeAnswers :
        IF a \notin StackStatuses
            THEN Raise(a) /\ UNCHANGED <<outputs, value>>
        ELSE \E o \in OutputsAnswers :
             /\ outputs' = o
             /\ IF ~o.present
                   THEN Raise("TypeError") /\ value' = value
                   ELSE /\ value' = FindOutput(o.list, output_name)
                        /\ pc' = "g_close"
                        /\ error' = error
    /\ UNCHANGED <<op, keys, aws_stack_status, recheck, waitVars, clientVars,
                   session, calls, csVars, output_name, lastRead>>
    /\ UNCHANGED sharedVars

\* self._cloudformation_client.close(); del self._aws_session
GetOutputClose ==
    /\ pc = "g_close"
    /\ CloseClient
    /\ session' = FALSE
    /\ pc' = "g_result"
    /\ UNCHANGED <<op, keys, aws_stack_status, recheck, waitVars, client, usedClosed,
                   calls, error, csVars, outVars, describes, lastRead>>
    /\ UNCHANGED sharedVars

\* The two raises after the close, else return value
GetOutputResult ==
    /\ pc = "g_result"
    /\ IF InvalidState(status) THEN Raise("Stack is not in a valid state")
       ELSE IF value = "None" THEN Raise("Output not found")
       ELSE pc' = "done" /\ error' = error
    /\ UNCHANGED <<op, keys, aws_stack_status, recheck, waitVars, clientVars,
                   usedClosed, session, calls, csVars, outVars, describes, lastRead>>
    /\ UNCHANGED sharedVars

----------------------------------------------------------------------------
Next ==
    \/ DeployBegin
    \/ DeployCheckStack
    \/ DeployNoTemplate
    \/ DeployInProgress
    \/ DeployNoBranch
    \/ DeployCreate
    \/ DeployDelete
    \/ DeployRecheck
    \/ DeployRecreate
    \/ DeployCreateChangeSet
    \/ DeployDescribeChangeSet
    \/ DeployDeleteChangeSet
    \/ DeployWaitChangeSet
    \/ DeployExecute
    \/ DeployWaitUpdate
    \/ DeployFinalCheck
    \/ DeployClose
    \/ DeployWaitCall
    \/ WaitBegin
    \/ WaitFirstCheck
    \/ WaitPoll
    \/ WaitReport
    \/ WaitClose
    \/ GetOutputBegin
    \/ GetOutputCheck
    \/ GetOutputDescribe
    \/ GetOutputClose
    \/ GetOutputResult

Spec == Init /\ [][Next]_vars

\* The call runs in one thread that is never suspended for ever: a step that
\* can be taken is taken.
SpecFair == Init /\ [][Next]_vars /\ WF_vars(Next)

----------------------------------------------------------------------------
(* Two calls interleaved on the shared instance *)

\* _aws.cloudformation is one module-level instance, and every method keeps
\* its client in the attribute self._cloudformation_client of that instance.
\* Each call is followed here through the steps that touch the attribute: the
\* store of a fresh client, the remote calls (each loads the attribute when it
\* is issued), the close (loads the attribute too) and the ends without a
\* close.  The boto3 sessions are left out: they do not decide which client a
\* call reaches.

Methods == {"deploy", "deploy_wait", "get_output"}

Running == {"run", "nested", "after"}

\* The methods create a client on every call, never reusing a stored one.
NewSharedHandle == CHOOSE h \in SharedHandles :
    /\ hstate[h] = "unopened"
    /\ \A g \in SharedHandles : hstate[g] = "unopened" => h <= g

\* Variant: a client already stored in the attribute is kept and reused.
StoreClientReusing == IF attr # 0 THEN attr ELSE NewSharedHandle

\* The client a beginning call stores in the attribute.
StoreClient == NewSharedHandle

\* self._cloudformation_client = <session>.client("cloudformation")
OpenShared(t) ==
    LET h == StoreClient IN
        /\ owner' = [owner EXCEPT ![h] = IF hstate[h] = "unopened" THEN t ELSE @]
        /\ hstate' = [hstate EXCEPT ![h] = IF @ = "unopened" THEN "open" ELSE @]
        /\ attr' = h

\* Calls a method must have issued before it can reach its close: check_stack
\* always; after the deploy_wait of deploy, the recheck and create_stack.
CallsBeforeClose(t) == IF tpc[t] = "after" THEN 2 ELSE 1

\* deploy, deploy_wait or get_output is called: its client is created and
\* stored in the shared attribute.
CallBegin(t) ==
    /\ tpc[t] = "idle"
    /\ \E m \in Methods : top' = [top EXCEPT ![t] = m]
    /\ OpenShared(t)
    /\ tpc' = [tpc EXCEPT ![t] = "run"]
    /\ tcalls' = [tcalls EXCEPT ![t] = 0]
    /\ overlap' = (overlap \/ \E u \in Threads \ {t} : tpc[u] \in Running)
    /\ UNCHANGED <<foreignUse, foreignClose>>
    /\ UNCHANGED callVars

\* A remote call (check_stack's describe_stacks, create_stack, delete_stack,
\* the change-set calls, the waiters): it goes through whatever client the
\* attribute holds when it is issued.
CallRemote(t) ==
    /\ tpc[t] \in Running
    /\ tcalls[t] < MaxRemoteCalls
    /\ tcalls' = [tcalls EXCEPT ![t] = @ + 1]
    /\ foreignUse' = [foreignUse EXCEPT ![t] = @ \/ owner[attr] # t]
    /\ UNCHANGED <<tpc, top, attr, hstate, owner, foreignClose, overlap>>
    /\ UNCHANGED callVars

\* deploy, having read a failed status and issued delete_stack, calls
\* deploy_wait, which stores a client of its own in the same attribute.
CallNestedWait(t) ==
    /\ tpc[t] = "run"
    /\ top[t] = "deploy"
    /\ tcalls[t] = 2
    /\ OpenShared(t)
    /\ tpc' = [tpc EXCEPT ![t] = "nested"]
    /\ tcalls' = [tcalls EXCEPT ![t] = 0]
    /\ UNCHANGED <<top, foreignUse, foreignClose, overlap>>
    /\ UNCHANGED callVars

\* self._cloudformation_client.close(): the client in the attribute is closed.
CloseShared(t) ==
    /\ hstate' = [hstate EXCEPT ![attr] = "closed"]
    /\ foreignClose' = [foreignClose EXCEPT ![t] = @ \/ owner[attr] # t]

\* The deploy_wait called by deploy closes the client and returns to deploy.
CallNestedWaitClose(t) ==
    /\ tpc[t] = "nested"
    /\ tcalls[t] >= 1
    /\ CloseShared(t)
    /\ tpc' = [tpc EXCEPT ![t] = "after"]
    /\ tcalls' = [tcalls EXCEPT ![t] = 0]
    /\ UNCHANGED <<top, attr, owner, foreignUse, overlap>>
    /\ UNCHANGED callVars

\* The call reaches its close and ends.
CallClose(t) ==
    /\ tpc[t] \in {"run", "after"}
    /\ tcalls[t] >= CallsBeforeClose(t)
    /\ CloseShared(t)
    /\ tpc' = [tpc EXCEPT ![t] = "done"]
    /\ UNCHANGED <<top, tcalls, attr, owner, foreignUse, overlap>>
    /\ UNCHANGED callVars

\* The call ends without closing: an exception of a remote call or a raise of
\* deploy leaves the method, or deploy returns after delete_change_set.
CallRaise(t) ==
    /\ tpc[t] \in Running
    /\ tcalls[t] >= 1
    /\ tpc' = [tpc EXCEPT ![t] = "done"]
    /\ UNCHANGED <<top, tcalls, attr, hstate, owner, foreignUse, foreignClose,
                   overlap>>
    /\ UNCHANGED callVars

NextShared ==
    \/ \E t \in Threads : CallBegin(t)
    \/ \E t \in Threads : CallRemote(t)
    \/ \E t \in Threads : CallNestedWait(t)
    \/ \E t \in Threads : CallNestedWaitClose(t)
    \/ \E t \in Threads : CallClose(t)
    \/ \E t \in Threads : CallRaise(t)

\* Two calls on the shared instance, interleaved in any order.
SpecShared == Init /\ [][NextShared]_vars

----------------------------------------------------------------------------
(* Terms of the claims *)

\* The template source of a request: the stored file when the request names
\* one, else the inline body.
RequestSource(k) ==
    IF "aws_template_file" \in k THEN "aws_template_file" ELSE "aws_template_body"

HasTemplate == keys # {}

\* Positions of `calls` that hold a call of the given name
CallsOf(name) == {i \in DOMAIN calls : calls[i].call = name}

Issued(name) == CallsOf(name) # {}

ChangeSetCalls ==
    CallsOf("create_change_set") \cup CallsOf("execute_change_set")
        \cup CallsOf("delete_change_set")

\* Classification of a status under the priority order
\* failed > rollback > in_progress > completed > update_impossible.
Classify(s) ==
    IF s = DOES_NOT_EXIST THEN "does_not_exist"
    ELSE IF s \in failed_statuses THEN "failed"
    ELSE IF s \in rollback_statuses THEN "rollback"
    ELSE IF s \in in_progress_statuses THEN "in_progress"
    ELSE IF s \in completed_statuses THEN "completed"
    ELSE IF s \in update_impossible_statuses THEN "update_impossible"
    ELSE "unclassified"

\* deploy has read the status and left the if/elif chain.
DeployBranched == op = "deploy" /\ aws_stack_status # "" /\ pc # "d_branch"

\* deploy has ended, by a return or by an exception.
DeployEnded == op = "deploy" /\ pc = "done"

\* Errors that come from the remote API and not from a decision of the code
RemoteFailures == RemoteErrors \cup {"StackNotFound"}

----------------------------------------------------------------------------
(* Claims *)

\* C1: for every status of the in-progress table (and a request that carries a
\* template source), deploy ends with the error "Stack is in progress", and no
\* create_stack, delete_stack, create_change_set, execute_change_set or
\* delete_change_set call was issued.
C1_InProgressFailsWithoutCalls ==
    (DeployBranched /\ HasTemplate /\ aws_stack_status \in in_progress_statuses)
        => (pc = "done" /\ error = "Stack is in progress" /\ calls = <<>>)

C1_Witness ==
    /\ DeployEnded
    /\ keys = {"aws_template_body"}
    /\ aws_stack_status = "UPDATE_COMPLETE_CLEANUP_IN_PROGRESS"
    /\ error = "Stack is in progress"

\* C2: when the observed status is DOES_NOT_EXIST, deploy issues exactly one
\* create_stack call carrying the template source of the request (file or
\* body), and no delete or change-set call.
C2_CreateOnceWithRequestSource ==
    (DeployBranched /\ HasTemplate /\ aws_stack_status = DOES_NOT_EXIST)
        => /\ Len(calls) = 1
           /\ calls[1].call = "create_stack"
           /\ calls[1].src = RequestSource(keys)

\* C3: for every failed or update_impossible status and either template
\* source, deploy issues delete_stack, then waits, then reads the status
\* again; when that status is not DOES_NOT_EXIST it raises "Failed to delete
\* stack, cannot continue" and issues no create_stack, otherwise it issues
\* create_stack (remote failures aside).
C3_DeleteWaitRecreate ==
    (DeployEnded /\ HasTemplate /\ error \notin RemoteFailures
        /\ aws_stack_status \in failed_statuses \cup update_impossible_statuses)
        => /\ calls # <<>>
           /\ calls[1].call = "delete_stack"
           /\ recheck # "" =>
                /\ Len(calls) >= 2
                /\ calls[2].call = "deploy_wait"
                /\ IF recheck # DOES_NOT_EXIST
                      THEN /\ error = "Failed to delete stack, cannot continue"
                           /\ ~Issued("create_stack")
                      ELSE /\ Len(calls) = 3
                           /\ calls[3].call = "create_stack"

\* C4: on a completed stack whose submitted template gives an empty diff,
\* deploy creates a change set, deletes it again and never issues
\* execute_change_set, for either template source and whether the change set
\* is pending or already failed when deploy first looks at it.
C4_EmptyDiffDeletesChangeSet ==
    (DeployEnded /\ diff = "empty" /\ csStatus = "FAILED" /\ error \notin RemoteFailures)
        => /\ Issued("create_change_set")
           /\ Issued("delete_change_set")
           /\ ~Issued("execute_change_set")

\* C5: in one deploy call at most one of the three actions is performed: a
\* plain create, an update through a change set, or a delete followed by a
\* create; no call issues two create_stack calls, or a change-set call
\* together with a create_stack or delete_stack call.
C5_AtMostOneAction ==
    op = "deploy" =>
        /\ Cardinality(CallsOf("create_stack")) <= 1
        /\ Cardinality(CallsOf("delete_stack")) <= 1
        /\ Cardinality(CallsOf("create_change_set")) <= 1
        /\ Cardinality(CallsOf("execute_change_set")) <= 1
        /\ ChangeSetCalls # {} => ~Issued("create_stack") /\ ~Issued("delete_stack")
        /\ \A i \in CallsOf("delete_stack"), j \in CallsOf("create_stack") : i < j

C5_Witness ==
    /\ DeployEnded
    /\ error = "none"
    /\ Issued("delete_stack")
    /\ Issued("create_stack")

\* C6: get_output fails with "Stack is not in a valid state" unless the status
\* is classified completed under the priority order: it neither returns a
\* value nor reports a missing output for DOES_NOT_EXIST, an in-progress, a
\* failed, a rollback or an update_impossible status.
C6_OnlyCompletedIsValid ==
    (op = "get_output" /\ pc = "done" /\ status # "" /\ Classify(status) # "completed")
        => error \in {"Stack is not in a valid state", "TypeError"} \cup RemoteFailures

\* C7: on a completed stack get_output(name) returns the value of the output
\* whose key is name, and raises "Output not found" when no output has that
\* key, also when the stack has no outputs at all.
C7_OutputLookup ==
    (op = "get_output" /\ pc = "done" /\ status # "" /\ Classify(status) = "completed"
        /\ error \notin RemoteFailures)
        => IF \E i \in DOMAIN outputs.list : outputs.list[i].OutputKey = output_name
              THEN /\ error = "none"
                   /\ \E i \in DOMAIN outputs.list :
                        /\ outputs.list[i].OutputKey = output_name
                        /\ outputs.list[i].OutputValue = value
              ELSE error = "Output not found"

\* C8: deploy_wait with timeout 30 on a stack that stays in progress the whole
\* time ends with the timed-out report after 30 time units (plus the describe
\* overhead), having slept 3 times 10 units and polled 3 times after its first
\* read of the status.
C8_TimeoutThirty ==
    (op = "deploy_wait" /\ timeout = 30 /\ stayed /\ pc \in {"w_close", "done"}
        /\ error = "none")
        => /\ report = "Stack procedure timed out"
           /\ sleeps = 3
           /\ describes = sleeps + 1
           /\ elapsed >= 30
           /\ elapsed <= 30 + MaxOverhead

C8_Witness ==
    /\ op = "deploy_wait" /\ timeout = 30 /\ stayed /\ pc = "done" /\ error = "none"
    /\ status = "CREATE_IN_PROGRESS"
    /\ sleeps = 3

\* C9: deploy_wait ends with exactly one report; it is the timed-out report
\* only when the last status is in progress and the timeout has elapsed, and
\* otherwise the classification of the last status (completed, failed, does
\* not exist): for every status the API can answer.
C9_ReportIsClassification ==
    pc = "w_close" =>
        IF report = "Stack procedure timed out"
            THEN status \in in_progress_statuses /\ elapsed >= timeout
        ELSE IF report = "Stack procedure failed" THEN status \in failed_statuses
        ELSE IF report = "Stack procedure successful"
            THEN status \in completed_statuses \cup {DOES_NOT_EXIST}
        ELSE report = "The stack does not exist" /\ status = DOES_NOT_EXIST

\* C10: when a call of deploy, deploy_wait or get_output ends, by a return or
\* by an exception, every client it opened is closed and its sessions are
\* dropped.
C10_ReleasedAtEnd ==
    pc = "done" =>
        /\ \A h \in Handles : handles[h] # "open"
        /\ ~session
        /\ ~session_wait

\* C11: when a status is in more than one table, the branch deploy,
\* deploy_wait and get_output take is the one of its category under the
\* priority order failed > rollback > in_progress > completed >
\* update_impossible: the completed branch only for a status classified
\* completed, the delete-and-create branch only for one classified failed or
\* update_impossible, and so on.
C11_PriorityDecidesBranch ==
    /\ (op = "deploy" /\ calls # <<>>) =>
          /\ calls[1].call = "create_stack"
                => Classify(aws_stack_status) = "does_not_exist"
          /\ calls[1].call = "delete_stack"
                => Classify(aws_stack_status) \in {"failed", "update_impossible"}
          /\ calls[1].call = "create_change_set"
                => Classify(aws_stack_status) = "completed"
    /\ (op = "deploy" /\ error = "Stack is in progress")
          => Classify(aws_stack_status) = "in_progress"
    /\ (op = "get_output" /\ pc = "g_describe") => Classify(status) = "completed"
    /\ (pc = "w_close" /\ report = "Stack procedure successful")
          => Classify(status) \in {"completed", "does_not_exist"}
    /\ (pc = "w_close" /\ report = "Stack procedure failed")
          => Classify(status) = "failed"

\* The last remote call of the update path was answered "No updates are to
\* be performed".
NoUpdatesAnswered ==
    /\ calls # <<>>
    /\ calls[Len(calls)].call \in
          {"create_change_set", "execute_change_set", "delete_change_set"}
    /\ ~calls[Len(calls)].ok
    /\ error # "RemoteError"

\* C12: a deploy on a completed stack whose update is a no-op (the change set
\* is empty, or the API answers that no updates are to be performed) ends in
\* success, for either template source.
C12_NoOpUpdateSucceeds ==
    (DeployEnded /\ Issued("create_change_set") /\ error # "RemoteError"
        /\ ((diff = "empty" /\ csStatus = "FAILED") \/ NoUpdatesAnswered))
        => error = "none"

\* C13: get_output issues exactly one describe call per invocation.
C13_OneDescribe ==
    (op = "get_output" /\ pc = "done" /\ error \notin RemoteFailures \cup {"TypeError"})
        => describes = 1

\* C14: a deploy request with neither a template file nor a template body
\* fails with "No template provided" whatever status was read, after the one
\* read of the status and without any create, delete or change-set call.
C14_NoTemplateFails ==
    (DeployBranched /\ ~HasTemplate)
        => (pc = "done" /\ error = "No template provided" /\ calls = <<>>
            /\ describes = 1)

C14_Witness ==
    /\ DeployEnded
    /\ ~HasTemplate
    /\ aws_stack_status = "CREATE_IN_PROGRESS"
    /\ error = "No template provided"

\* The value v is what check_stack makes of the last answer: the sentinel for
\* the "does not exist" error and for nothing else, else the status answered.
Returned(v) == IF lastRead = "StackNotFound" THEN v = DOES_NOT_EXIST ELSE v = lastRead

\* C15: check_stack returns DOES_NOT_EXIST only when the describe call failed
\* with the "does not exist" error; any other remote error ends the call of
\* deploy, deploy_wait or get_output with that same error: it is never turned
\* into a status and the describe is not made again.
C15_SentinelOnlyForNotFound ==
    /\ lastRead \in DescribeErrors => (pc = "done" /\ error = lastRead)
    /\ pc = "d_branch" => Returned(aws_stack_status)
    /\ (pc = "d_recreate" \/ error = "Failed to delete stack, cannot continue")
          => Returned(recheck)
    /\ pc \in {"w_loop", "w_close", "g_describe", "g_close", "g_result"}
          => Returned(status)

C15_Witness ==
    /\ DeployEnded
    /\ Issued("delete_stack")
    /\ lastRead = "RemoteError"
    /\ error = "RemoteError"

\* C16: on the update path the calls come in the order create_change_set,
\* wait for the change set, execute_change_set, wait for the stack update;
\* execute_change_set is issued only after a wait for the change set that
\* ended well, and deploy does not return normally after an execute that went
\* through without the wait for the update having ended well.
C16_UpdateOrder ==
    op = "deploy" =>
        /\ \A e \in CallsOf("execute_change_set") :
              \E c \in CallsOf("create_change_set"),
                 w \in CallsOf("wait_change_set_create_complete") :
                    c < w /\ w < e /\ calls[c].ok /\ calls[w].ok
        /\ \A u \in CallsOf("wait_stack_update_complete") :
              \E e \in CallsOf("execute_change_set") : e < u /\ calls[e].ok
        /\ (pc = "done" /\ error = "none"
              /\ \E e \in CallsOf("execute_change_set") : calls[e].ok)
              => \E u \in CallsOf("wait_stack_update_complete") : calls[u].ok

C16_Witness ==
    /\ DeployEnded
    /\ error = "none"
    /\ keys = {"aws_template_body"}
    /\ Len(calls) = 4
    /\ calls[3].call = "execute_change_set"
    /\ calls[4].call = "wait_stack_update_complete"
    /\ calls[4].ok

\* C17: deploy_wait terminates: once called it reaches its end (the close, or
\* an exception) whatever statuses the stack reports and for every timeout;
\* the loop is left as soon as the status is not in progress or the elapsed
\* time has reached the timeout, which is at most one poll interval (and the
\* describe overhead) after the timeout.
C17_WaitTerminates ==
    /\ [](pc = "w_loop" => elapsed < timeout + PollInterval + MaxOverhead)
    /\ [][(pc = "w_loop" /\ ~(status \in in_progress_statuses /\ elapsed < timeout))
            => pc' = "w_close"]_vars
    /\ (pc = "w_begin") ~> (pc \in {"w_close", "done"})

C17_Witness ==
    /\ op = "deploy_wait"
    /\ pc = "w_close"
    /\ timeout = DefaultTimeout
    /\ status \in in_progress_statuses
    /\ sleeps = 60

\* C18: within one deploy call no remote call goes through a client handle
\* that is already closed, and every handle is closed at most once, also on
\* the delete-then-create path where deploy_wait stores its client in the
\* attribute deploy uses.
C18_NoUseAfterClose ==
    op = "deploy" => (~usedClosed /\ \A h \in Handles : closes[h] <= 1)

\* C19: deploy issues create_stack only when the status it read last, with no
\* mutating call of its own since, was DOES_NOT_EXIST.
C19_CreateOnlyAfterNotFound ==
    [][(Len(calls') > Len(calls) /\ calls'[Len(calls')].call = "create_stack")
          => lastRead = "StackNotFound"]_vars

C19_Witness ==
    /\ op = "deploy"
    /\ pc = "d_close"
    /\ recheck = DOES_NOT_EXIST
    /\ Len(calls) = 3
    /\ calls[1].call = "delete_stack"
    /\ calls[3].call = "create_stack"

\* C20: the branches of deploy are exhaustive: for every status the API can
\* report and a request with a template source, deploy issues a create, delete
\* or change-set call or raises an error; it never returns normally having
\* issued no call.
C20_BranchesExhaustive ==
    (DeployEnded /\ HasTemplate /\ error = "none") => calls # <<>>

\* C21 as stated: when two calls run interleaved on the shared instance, each
\* issues its remote calls only through the client it opened itself and closes
\* only that client.
C21_Original_NoForeignClient ==
    \A t \in Threads : ~foreignUse[t] /\ ~foreignClose[t]

\* C21, amended: a call issues a remote call through, or closes, a client of
\* the other call only when the two calls overlapped in time; calls that run
\* one after the other use and close only the clients they opened themselves
\* (for deploy, the client of the deploy_wait it calls included).
C21_ForeignClientOnlyWhenOverlapping ==
    \A t \in Threads : (foreignUse[t] \/ foreignClose[t]) => overlap

\* Two calls, one after the other: each issued remote calls and closed a
\* client, and neither touched a client of the other.
C21_Witness ==
    /\ ~overlap
    /\ \A t \in Threads :
        /\ tpc[t] = "done"
        /\ tcalls[t] >= 1
        /\ \E h \in SharedHandles : owner[h] = t /\ hstate[h] = "closed"
        /\ ~foreignUse[t] /\ ~foreignClose[t]

====
